---- MODULE Spec2Model ----
(***************************************************************************)
(* The cell core of the spreadsheet (src/cell.h, src/cell.cpp): content of *)
(* a cell (Empty / Text / Formula), the referenced / referring edge sets,  *)
(* the circular-dependency check and the cache invalidation pass.          *)
(*                                                                         *)
(* A text is a sequence of one-character strings.  The characters "A",     *)
(* "B", "C" inside a formula expression are references to the positions of *)
(* the same name, "1" and "2" are numeric literals, and an expression is   *)
(* the sum of its terms.                                                   *)
(***************************************************************************)
EXTENDS Integers, Sequences, FiniteSets, TLC

\* ------------------------------------------------------------------ bounds
\* longest reference list of a formula given to Set
MaxRefs == 2
\* longest literal text given to Set in the text specification
MaxLen == 2
\* largest number a formula evaluates to before GetValue is no longer called
MaxValue == 2

\* --------------------------------------------------------------- alphabet
Positions == {"A", "B", "C"}
Digits == {"1", "2"}
FORMULA_SIGN == "="
ESCAPE_SIGN == "'"
\* the characters of the literal texts of the text specification
Chars == {FORMULA_SIGN, ESCAPE_SIGN, "A", "1"}

RECURSIVE SeqsUpTo(_, _)
SeqsUpTo(S, n) ==
    IF n = 0 THEN {<<>>}
    ELSE LET shorter == SeqsUpTo(S, n - 1)
         IN shorter \cup {Append(s, c) : s \in {x \in shorter : Len(x) = n - 1}, c \in S}

\* expressions given to Set: a non-empty sum of distinct references
Expressions ==
    {e \in SeqsUpTo(Positions, MaxRefs) :
        e # <<>> /\ \A i, j \in DOMAIN e : e[i] = e[j] => i = j}
FormulaTexts == {<<FORMULA_SIGN>> \o e : e \in Expressions}
\* literal texts used on the three-cell sheet
LiteralTexts == {<<>>, <<"1">>}
Texts == LiteralTexts \cup FormulaTexts
\* every text of the alphabet up to MaxLen that is literal, and every formula
AllLiterals ==
    {t \in SeqsUpTo(Chars, MaxLen) : ~(Len(t) > 1 /\ Head(t) = FORMULA_SIGN)}
AllTexts == AllLiterals \cup FormulaTexts

\* ----------------------------------------------------------------- values
\* Cell::Value = std::variant<std::string, double, FormulaError>
StrValue(s) == [tag |-> "str", s |-> s, n |-> 0]
NumValue(n) == [tag |-> "num", s |-> <<>>, n |-> n]
ErrValue == [tag |-> "err", s |-> <<>>, n |-> 0]
\* an empty std::optional: no memoized result / no value read yet
NoCache == [tag |-> "none", s |-> <<>>, n |-> 0]

\* ---------------------------------------------------------------- content
\* impl_ of a constructed cell before its first Set
NullImpl == [kind |-> "Null", text |-> <<>>, cache |-> NoCache]
EmptyImpl == [kind |-> "Empty", text |-> <<>>, cache |-> NoCache]
TextImpl(text) == [kind |-> "Text", text |-> text, cache |-> NoCache]
\* the formula object is kept as the expression it was parsed from, with
\* its memoized result
FormulaImpl(expression) == [kind |-> "Formula", text |-> expression, cache |-> NoCache]

\* FormulaInterface::GetReferencedCells: the references in expression order
FormulaReferencedCells(expression) == SelectSeq(expression, LAMBDA c : c \in Positions)
\* FormulaInterface::GetExpression: the expression has no blanks or brackets
GetExpression(expression) == expression

ImplGetReferencedCells(impl) ==
    IF impl.kind = "Formula" THEN FormulaReferencedCells(impl.text) ELSE <<>>

ImplGetText(impl) ==
    CASE impl.kind = "Formula" -> <<FORMULA_SIGN>> \o GetExpression(impl.text)
      [] impl.kind = "Text" -> impl.text
      [] OTHER -> <<>>

HasCache(impl) == impl.cache # NoCache

SeqToSet(s) == {s[i] : i \in DOMAIN s}

VARIABLES
    cells,              \* positions that hold a cell in the sheet's table
    impl_,              \* content of each cell
    referring_cells_,   \* incoming edges of each cell
    referenced_cells_,  \* outgoing edges of each cell
    fault,              \* an unchecked lookup or cast acted on nothing
    last,               \* the last call and its outcome
    run                 \* the Set call in progress, when it is followed step by step

vars == <<cells, impl_, referring_cells_, referenced_cells_, fault, last, run>>

\* the sheet as one value, threaded through the steps of a call
State ==
    [cells |-> cells, impl |-> impl_, referring |-> referring_cells_,
     referenced |-> referenced_cells_, fault |-> fault]


\* ------------------------------------------------------- cache invalidation
\* Cell::ClearCaches: clears the cache of each cell of reffering_cells that
\* has one and goes on through that cell's own referring cells; a cell with
\* no cache is passed over.  The lookup and the cast are unchecked.  The
\* result does not depend on the order in which the set is walked.
RECURSIVE ClearCaches(_, _)
ClearCaches(s, reffering_cells) ==
    IF reffering_cells = {} \/ s.fault THEN s
    ELSE LET cell_pos == CHOOSE x \in reffering_cells : TRUE
             rest == reffering_cells \ {cell_pos}
         IN IF cell_pos \notin s.cells \/ s.impl[cell_pos].kind # "Formula"
            THEN [s EXCEPT !.fault = TRUE]
            ELSE IF ~HasCache(s.impl[cell_pos])
            THEN ClearCaches(s, rest)
            ELSE LET cleared == [s EXCEPT !.impl[cell_pos].cache = NoCache]
                 IN ClearCaches(ClearCaches(cleared, cleared.referring[cell_pos]), rest)

\* ------------------------------------------------------------ edge removal
\* EraseEdges as it would be if it left pos in the referring sets
EraseEdgesKeepReferring(s, pos) ==
    [ClearCaches(s, s.referring[pos]) EXCEPT !.referenced[pos] = {}]

\* EraseEdges as it would be without referenced_cells_.clear()
EraseEdgesKeepReferenced(s, pos) ==
    LET c == ClearCaches(s, s.referring[pos])
    IN [c EXCEPT
          !.referring = [q \in Positions |->
                            IF q \in c.referenced[pos] /\ q \in c.cells
                            THEN c.referring[q] \ {pos}
                            ELSE c.referring[q]]]

\* EraseEdges as it would be if it emptied the cell's referring set too
EraseEdgesClearsReferring(s, pos) ==
    LET c == ClearCaches(s, s.referring[pos])
    IN [c EXCEPT
          !.referring = [q \in Positions |->
                            IF q = pos THEN {}
                            ELSE IF q \in c.referenced[pos] /\ q \in c.cells
                            THEN c.referring[q] \ {pos}
                            ELSE c.referring[q]],
          !.referenced[pos] = {}]

\* Cell::EraseEdges: invalidates the referrers' caches, takes pos out of the
\* referring set of every cell it references, and empties its referenced set
EraseEdges(s, pos) ==
    LET c == ClearCaches(s, s.referring[pos])
    IN [c EXCEPT
          !.referring = [q \in Positions |->
                            IF q \in c.referenced[pos] /\ q \in c.cells
                            THEN c.referring[q] \ {pos}
                            ELSE c.referring[q]],
          !.referenced[pos] = {}]

\* ------------------------------------------------------------- cycle check
RECURSIVE SetToSeq(_)
SetToSeq(S) ==
    IF S = {} THEN <<>>
    ELSE LET x == CHOOSE y \in S : TRUE IN <<x>> \o SetToSeq(S \ {x})

\* the walk as it would be if it followed the stored referenced sets
\* instead of the committed contents
RECURSIVE WalkCircularStored(_, _, _, _)
WalkCircularStored(s, this_cell_pos, references, visited_cells) ==
    IF references = <<>> THEN [thrown |-> FALSE, visited |-> visited_cells]
    ELSE LET ref_cell_pos == Head(references)
             rest == Tail(references)
         IN IF ref_cell_pos \in visited_cells
            THEN WalkCircularStored(s, this_cell_pos, rest, visited_cells)
            ELSE IF this_cell_pos = ref_cell_pos
            THEN [thrown |-> TRUE, visited |-> visited_cells]
            ELSE LET seen == visited_cells \cup {ref_cell_pos}
                 IN IF ref_cell_pos \notin s.cells
                    THEN WalkCircularStored(s, this_cell_pos, rest, seen)
                    ELSE LET below == WalkCircularStored(s, this_cell_pos,
                                          SetToSeq(s.referenced[ref_cell_pos]), seen)
                         IN IF below.thrown THEN below
                            ELSE WalkCircularStored(s, this_cell_pos, rest, below.visited)

\* Cell::CheckCircularError (the three-argument overload): depth-first walk
\* of the committed contents' reference lists with a visited set; thrown is
\* TRUE when the walk meets this_cell_pos
RECURSIVE WalkCircular(_, _, _, _)
WalkCircular(s, this_cell_pos, references, visited_cells) ==
    IF references = <<>> THEN [thrown |-> FALSE, visited |-> visited_cells]
    ELSE LET ref_cell_pos == Head(references)
             rest == Tail(references)
         IN IF ref_cell_pos \in visited_cells
            THEN WalkCircular(s, this_cell_pos, rest, visited_cells)
            ELSE IF this_cell_pos = ref_cell_pos
            THEN [thrown |-> TRUE, visited |-> visited_cells]
            ELSE LET seen == visited_cells \cup {ref_cell_pos}
                 IN IF ref_cell_pos \notin s.cells
                    THEN WalkCircular(s, this_cell_pos, rest, seen)
                    ELSE LET below == WalkCircular(s, this_cell_pos,
                                          ImplGetReferencedCells(s.impl[ref_cell_pos]), seen)
                         IN IF below.thrown THEN below
                            ELSE WalkCircular(s, this_cell_pos, rest, below.visited)

\* the check as it would be if it looked at the reference list only
CheckCircularErrorDirect(s, pos, references) ==
    pos \in SeqToSet(references)

\* Cell::CheckCircularError (the one-argument overload): TRUE when it throws
CheckCircularError(s, pos, references) ==
    WalkCircular(s, pos, references, {}).thrown

\* ------------------------------------------------------------------- Set
RECURSIVE CellSet(_, _, _)

\* Cell::Cell: a cell with no content yet and no edges
Construct(s, pos) ==
    [s EXCEPT !.cells = @ \cup {pos}, !.impl[pos] = NullImpl,
              !.referring[pos] = {}, !.referenced[pos] = {}]

\* SheetInterface::SetCell: makes the cell when the position has none, then
\* sets its text
SetCell(s, pos, text) ==
    CellSet(IF pos \in s.cells THEN s ELSE Construct(s, pos), pos, text).state

\* AddEdges as it would be without the creation of the missing cell
RECURSIVE AddEdgesNoCreate(_, _, _)
AddEdgesNoCreate(s, pos, references) ==
    IF references = <<>> THEN s
    ELSE LET p == Head(references)
             linked == [s EXCEPT !.referenced[pos] = @ \cup {p},
                                 !.referring[p] = @ \cup {pos}]
         IN AddEdgesNoCreate(linked, pos, Tail(references))

\* Cell::AddEdges: every referenced position gets a cell, pos gets the
\* position in its referenced set and the position gets pos in its referring
\* set
RECURSIVE AddEdges(_, _, _)
AddEdges(s, pos, references) ==
    IF references = <<>> THEN s
    ELSE LET p == Head(references)
             made == IF p \notin s.cells THEN SetCell(s, p, <<>>) ELSE s
             linked == [made EXCEPT !.referenced[pos] = @ \cup {p},
                                    !.referring[p] = @ \cup {pos}]
         IN AddEdges(linked, pos, Tail(references))

\* the test as it would be without the size check
IsFormulaTextNoSize(text) == Head(text) = FORMULA_SIGN

\* the test of Cell::Set for formula text, on a text that is not empty
IsFormulaText(text) == Head(text) = FORMULA_SIGN /\ Len(text) > 1

\* Cell::Set as it would be if AddEdges ran before CheckCircularError
CellSetAddsFirst(s, pos, text) ==
    LET erased == EraseEdges(s, pos)
    IN IF text = <<>>
       THEN [state |-> [erased EXCEPT !.impl[pos] = EmptyImpl], thrown |-> FALSE]
       ELSE IF IsFormulaText(text)
       THEN LET formula_impl == FormulaImpl(Tail(text))
                references == ImplGetReferencedCells(formula_impl)
                added == AddEdges(erased, pos, references)
            IN IF CheckCircularError(erased, pos, references)
               THEN [state |-> added, thrown |-> TRUE]
               ELSE [state |-> [added EXCEPT !.impl[pos] = formula_impl],
                     thrown |-> FALSE]
       ELSE [state |-> [erased EXCEPT !.impl[pos] = TextImpl(text)], thrown |-> FALSE]

\* Cell::Set: the state after the call, and whether it threw
\* CircularDependencyException
CellSet(s, pos, text) ==
    LET erased == EraseEdges(s, pos)
    IN IF text = <<>>
       THEN [state |-> [erased EXCEPT !.impl[pos] = EmptyImpl], thrown |-> FALSE]
       ELSE IF IsFormulaText(text)
       THEN LET formula_impl == FormulaImpl(Tail(text))
                references == ImplGetReferencedCells(formula_impl)
            IN IF CheckCircularError(erased, pos, references)
               THEN [state |-> erased, thrown |-> TRUE]
               ELSE [state |-> [AddEdges(erased, pos, references)
                                   EXCEPT !.impl[pos] = formula_impl],
                     thrown |-> FALSE]
       ELSE [state |-> [erased EXCEPT !.impl[pos] = TextImpl(text)], thrown |-> FALSE]

\* ------------------------------------------------------------- evaluation
DigitValue(c) == IF c = "1" THEN 1 ELSE 2

RECURSIVE ParseNumber(_)
ParseNumber(text) ==
    IF text = <<>> THEN 0
    ELSE ParseNumber(SubSeq(text, 1, Len(text) - 1)) * 10 + DigitValue(text[Len(text)])

\* the number a formula reads from a referenced cell's value
AsNumber(v) ==
    CASE v.tag = "num" -> v
      [] v.tag = "err" -> ErrValue
      [] OTHER -> IF \A i \in DOMAIN v.s : v.s[i] \in Digits
                  THEN NumValue(ParseNumber(v.s))
                  ELSE ErrValue

\* TextImpl::GetValue as it would be without the escape sign test
TextGetValueRaw(text) == StrValue(text)

\* TextImpl::GetValue
TextGetValue(text) ==
    IF text # <<>> /\ text[1] = ESCAPE_SIGN THEN StrValue(Tail(text)) ELSE StrValue(text)

RECURSIVE CellGetValue(_, _)

\* one term of an expression: a literal, or the value of the referenced cell
\* (zero when the position holds no cell)
TermValue(s, c) ==
    IF c \in Digits THEN NumValue(DigitValue(c))
    ELSE IF c \notin s.cells THEN NumValue(0)
    ELSE AsNumber(CellGetValue(s, c))

RECURSIVE SumTerms(_, _)
SumTerms(s, expression) ==
    IF expression = <<>> THEN NumValue(0)
    ELSE LET h == TermValue(s, Head(expression))
             t == SumTerms(s, Tail(expression))
         IN IF h.tag = "err" \/ t.tag = "err" THEN ErrValue ELSE NumValue(h.n + t.n)

\* FormulaInterface::Evaluate: the memoized result when there is one
FormulaEvaluate(s, impl) ==
    IF HasCache(impl) THEN impl.cache ELSE SumTerms(s, impl.text)

\* Cell::GetValue through EmptyImpl / TextImpl / FormulaImpl::GetValue
CellGetValue(s, pos) ==
    LET impl == s.impl[pos]
    IN CASE impl.kind = "Formula" -> FormulaEvaluate(s, impl)
         [] impl.kind = "Text" -> TextGetValue(impl.text)
         [] OTHER -> StrValue(<<>>)

\* the formula cells whose formula object computes a result during
\* GetValue(pos): pos and, through the references, every formula cell with
\* no memoized result
RECURSIVE Evaluated(_, _)
Evaluated(s, pos) ==
    IF pos \in s.cells /\ s.impl[pos].kind = "Formula" /\ ~HasCache(s.impl[pos])
    THEN {pos} \cup UNION {Evaluated(s, r) :
                              r \in SeqToSet(ImplGetReferencedCells(s.impl[pos]))}
    ELSE {}

\* the state after GetValue(pos) when the formula objects in memo keep their
\* result
Memoize(s, memo) ==
    [s EXCEPT !.impl = [q \in Positions |->
                           IF q \in memo
                           THEN [s.impl[q] EXCEPT !.cache = CellGetValue(s, q)]
                           ELSE s.impl[q]]]

\* ---------------------------------------------------------------- actions
Commit(s) ==
    /\ cells' = s.cells
    /\ impl_' = s.impl
    /\ referring_cells_' = s.referring
    /\ referenced_cells_' = s.referenced
    /\ fault' = s.fault
    /\ run' = run

\* no Set call in progress: stack holds the pending loops of the recursion,
\* innermost last; cleared and inserted count, per position, the caches the
\* invalidation pass cleared and the insertions into visited_cells
Idle ==
    [phase |-> "idle", pos |-> "A", text |-> <<>>, stack |-> <<>>,
     visited |-> {}, thrown |-> FALSE,
     cleared |-> [p \in Positions |-> 0],
     inserted |-> [p \in Positions |-> 0],
     start |-> [cells |-> {}, impl |-> [p \in Positions |-> NullImpl],
                referring |-> [p \in Positions |-> {}],
                referenced |-> [p \in Positions |-> {}], fault |-> FALSE]]

Init ==
    /\ cells = {}
    /\ impl_ = [p \in Positions |-> NullImpl]
    /\ referring_cells_ = [p \in Positions |-> {}]
    /\ referenced_cells_ = [p \in Positions |-> {}]
    /\ fault = FALSE
    /\ last = [op |-> "none", pos |-> "A", text |-> <<>>, thrown |-> FALSE,
               value |-> NoCache, before |-> {}, tick |-> 0]
    /\ run = Idle

\* the record of a call: before is the referenced set of pos when the call
\* began, tick tells one call from the next
Call(op, pos, text, thrown, value) ==
    [op |-> op, pos |-> pos, text |-> text, thrown |-> thrown, value |-> value,
     before |-> referenced_cells_[pos], tick |-> 1 - last.tick]

\* the caller makes an empty cell at a position that has none
CreateCell(pos) ==
    /\ ~fault
    /\ pos \notin cells
    /\ Commit(SetCell(State, pos, <<>>))
    /\ last' = Call("CreateCell", pos, <<>>, FALSE, NoCache)

\* Cell::Set(text) on the cell at pos
Set(pos, text) ==
    /\ ~fault
    /\ pos \in cells
    /\ LET r == CellSet(State, pos, text)
       IN /\ Commit(r.state)
          /\ last' = Call("Set", pos, text, r.thrown, NoCache)

\* Cell::GetValue() on the cell at pos, the formula objects in memo keeping
\* the result they compute
Read(pos, memo) ==
    /\ ~fault
    /\ pos \in cells
    /\ CellGetValue(State, pos).n <= MaxValue
    /\ Commit(Memoize(State, memo))
    /\ last' = Call("GetValue", pos, <<>>, FALSE, CellGetValue(State, pos))

\* a formula object may memoize its result
GetValue(pos) == \E memo \in SUBSET Evaluated(State, pos) : Read(pos, memo)

\* every formula object memoizes every result
GetValueMemo(pos) == Read(pos, Evaluated(State, pos))

Next ==
    \/ \E pos \in Positions : CreateCell(pos)
    \/ \E pos \in Positions, text \in Texts : Set(pos, text)
    \/ \E pos \in Positions : GetValue(pos)

Spec == Init /\ [][Next]_vars

\* the sheet whose formula objects always memoize
NextMemo ==
    \/ \E pos \in Positions : CreateCell(pos)
    \/ \E pos \in Positions, text \in Texts : Set(pos, text)
    \/ \E pos \in Positions : GetValueMemo(pos)

SpecMemo == Init /\ [][NextMemo]_vars

\* the sheet collaborator removes the cell at pos: the position holds no cell
\* any more, the sets of the other cells keep the position
RemoveCell(pos) ==
    /\ ~fault
    /\ pos \in cells
    /\ Commit([State EXCEPT !.cells = @ \ {pos}, !.impl[pos] = NullImpl,
                            !.referring[pos] = {}, !.referenced[pos] = {}])
    /\ last' = Call("RemoveCell", pos, <<>>, FALSE, NoCache)

\* the sheet whose collaborator removes cells; no cell is read, so no
\* formula holds a memoized result
NextRemove ==
    \/ \E pos \in Positions : CreateCell(pos)
    \/ \E pos \in Positions, text \in Texts : Set(pos, text)
    \/ \E pos \in Positions : RemoveCell(pos)

SpecRemove == Init /\ [][NextRemove]_vars

\* the one-cell text specification: every text of the alphabet set on "A"
NextText ==
    \/ CreateCell("A")
    \/ \E text \in AllTexts : Set("A", text)
    \/ GetValue("A")

SpecText == Init /\ [][NextText]_vars

\* ------------------------------------------- one Set call, step by step
\* the top of the call stack and the stack with its top replaced or removed
Top(stack) == stack[Len(stack)]
SetTop(stack, loop) == [stack EXCEPT ![Len(stack)] = loop]
Pop(stack) == SubSeq(stack, 1, Len(stack) - 1)

\* the loop body of ClearCaches as it would be without the HasCache test
ClearCachesVisitAll(s, r, cell_pos) ==
    LET rest == [r EXCEPT !.stack = SetTop(@, Top(@) \ {cell_pos})]
    IN IF cell_pos \notin s.cells \/ s.impl[cell_pos].kind # "Formula"
       THEN [state |-> [s EXCEPT !.fault = TRUE], run |-> rest]
       ELSE [state |-> [s EXCEPT !.impl[cell_pos].cache = NoCache],
             run |-> [rest EXCEPT !.stack = Append(@, s.referring[cell_pos]),
                                  !.cleared[cell_pos] = @ + 1]]

\* one pass of the loop body of Cell::ClearCaches, for the element cell_pos
\* of the innermost loop: a cell with no cache is passed over, a cell with
\* a cache loses it and its referring set becomes a new innermost loop
ClearCachesVisit(s, r, cell_pos) ==
    LET rest == [r EXCEPT !.stack = SetTop(@, Top(@) \ {cell_pos})]
    IN IF cell_pos \notin s.cells \/ s.impl[cell_pos].kind # "Formula"
       THEN [state |-> [s EXCEPT !.fault = TRUE], run |-> rest]
       ELSE IF ~HasCache(s.impl[cell_pos])
       THEN [state |-> s, run |-> rest]
       ELSE [state |-> [s EXCEPT !.impl[cell_pos].cache = NoCache],
             run |-> [rest EXCEPT !.stack = Append(@, s.referring[cell_pos]),
                                  !.cleared[cell_pos] = @ + 1]]

\* the loop body of CheckCircularError as it would be without the
\* visited_cells test
CheckCircularErrorVisitAgain(s, r) ==
    LET ref_cell_pos == Head(Top(r.stack))
        rest == [r EXCEPT !.stack = SetTop(@, Tail(Top(@)))]
    IN IF r.pos = ref_cell_pos
       THEN [rest EXCEPT !.phase = "done", !.stack = <<>>, !.thrown = TRUE]
       ELSE LET seen == [rest EXCEPT !.visited = @ \cup {ref_cell_pos},
                                     !.inserted[ref_cell_pos] = @ + 1]
            IN IF ref_cell_pos \notin s.cells
               THEN seen
               ELSE [seen EXCEPT !.stack =
                        Append(@, ImplGetReferencedCells(s.impl[ref_cell_pos]))]

\* one pass of the loop body of Cell::CheckCircularError (the three-argument
\* overload), for the first element left of the innermost loop; the
\* exception unwinds every loop and ends the call
CheckCircularErrorVisit(s, r) ==
    LET ref_cell_pos == Head(Top(r.stack))
        rest == [r EXCEPT !.stack = SetTop(@, Tail(Top(@)))]
    IN IF ref_cell_pos \in r.visited
       THEN rest
       ELSE IF r.pos = ref_cell_pos
       THEN [rest EXCEPT !.phase = "done", !.stack = <<>>, !.thrown = TRUE]
       ELSE LET seen == [rest EXCEPT !.visited = @ \cup {ref_cell_pos},
                                     !.inserted[ref_cell_pos] = @ + 1]
            IN IF ref_cell_pos \notin s.cells
               THEN seen
               ELSE [seen EXCEPT !.stack =
                        Append(@, ImplGetReferencedCells(s.impl[ref_cell_pos]))]

Advance(s, r) ==
    /\ cells' = s.cells
    /\ impl_' = s.impl
    /\ referring_cells_' = s.referring
    /\ referenced_cells_' = s.referenced
    /\ fault' = s.fault
    /\ run' = r
    /\ UNCHANGED last

\* Cell::Set(text) is entered on the cell at pos: EraseEdges calls
\* ClearCaches(referring_cells_)
SetBegin(pos, text) ==
    /\ ~fault
    /\ run.phase = "idle"
    /\ pos \in cells
    /\ Advance(State, [Idle EXCEPT !.phase = "ClearCaches", !.pos = pos,
                                   !.text = text,
                                   !.stack = <<referring_cells_[pos]>>,
                                   !.start = State])

\* the innermost ClearCaches loop takes an element, in any order
ClearCachesLoop ==
    /\ ~fault
    /\ run.phase = "ClearCaches"
    /\ run.stack # <<>>
    /\ \E cell_pos \in Top(run.stack) :
          LET n == ClearCachesVisit(State, run, cell_pos)
          IN Advance(n.state, n.run)

\* the innermost ClearCaches loop has no element left and returns
ClearCachesReturn ==
    /\ ~fault
    /\ run.phase = "ClearCaches"
    /\ run.stack # <<>>
    /\ Top(run.stack) = {}
    /\ Advance(State, [run EXCEPT !.stack = Pop(@)])

\* ClearCaches has returned to EraseEdges: the loop over referenced_cells_
\* and the clear, then Set's branch on the text; a formula text goes on to
\* CheckCircularError with an empty visited_cells
EraseEdgesLoop ==
    /\ ~fault
    /\ run.phase = "ClearCaches"
    /\ run.stack = <<>>
    /\ LET pos == run.pos
           erased == [State EXCEPT
                         !.referring = [q \in Positions |->
                                           IF q \in referenced_cells_[pos] /\ q \in cells
                                           THEN referring_cells_[q] \ {pos}
                                           ELSE referring_cells_[q]],
                         !.referenced[pos] = {}]
       IN IF run.text = <<>>
          THEN Advance([erased EXCEPT !.impl[pos] = EmptyImpl],
                       [run EXCEPT !.phase = "done"])
          ELSE IF IsFormulaText(run.text)
          THEN Advance(erased,
                       [run EXCEPT !.phase = "CheckCircularError",
                                   !.stack = <<ImplGetReferencedCells(
                                                  FormulaImpl(Tail(run.text)))>>])
          ELSE Advance([erased EXCEPT !.impl[pos] = TextImpl(run.text)],
                       [run EXCEPT !.phase = "done"])

\* the innermost CheckCircularError loop takes its next element
CheckCircularErrorLoop ==
    /\ ~fault
    /\ run.phase = "CheckCircularError"
    /\ run.stack # <<>>
    /\ Top(run.stack) # <<>>
    /\ Advance(State, CheckCircularErrorVisit(State, run))

\* the innermost CheckCircularError loop has no element left and returns
CheckCircularErrorReturn ==
    /\ ~fault
    /\ run.phase = "CheckCircularError"
    /\ run.stack # <<>>
    /\ Top(run.stack) = <<>>
    /\ Advance(State, [run EXCEPT !.stack = Pop(@)])

\* CheckCircularError has returned to Set without throwing: AddEdges and the
\* move of the formula into impl_
SetFinish ==
    /\ ~fault
    /\ run.phase = "CheckCircularError"
    /\ run.stack = <<>>
    /\ LET formula_impl == FormulaImpl(Tail(run.text))
           added == AddEdges(State, run.pos, ImplGetReferencedCells(formula_impl))
       IN Advance([added EXCEPT !.impl[run.pos] = formula_impl],
                  [run EXCEPT !.phase = "done"])

\* the contents a cell of an arbitrary sheet holds: nothing, or a formula
\* with or without a memoized result
InitContents ==
    {EmptyImpl} \cup
    {[FormulaImpl(SetToSeq(R)) EXCEPT !.cache = c] :
        R \in {S \in SUBSET Positions : S # {} /\ Cardinality(S) <= MaxRefs},
        c \in {NoCache, NumValue(0)}}

\* an arbitrary sheet whose edge sets agree with its contents; the contents
\* may refer to one another in a cycle, and to positions with no cell
InitAny ==
    /\ cells \in SUBSET Positions
    /\ impl_ \in [Positions -> InitContents \cup {NullImpl}]
    /\ \A p \in Positions : impl_[p] = NullImpl <=> p \notin cells
    /\ referenced_cells_ = [p \in Positions |-> SeqToSet(ImplGetReferencedCells(impl_[p]))]
    /\ referring_cells_ =
          [q \in Positions |->
              IF q \in cells
              THEN {p \in cells : q \in SeqToSet(ImplGetReferencedCells(impl_[p]))}
              ELSE {}]
    /\ fault = FALSE
    /\ last = [op |-> "none", pos |-> "A", text |-> <<>>, thrown |-> FALSE,
               value |-> NoCache, before |-> {}, tick |-> 0]
    /\ run = Idle

\* the arbitrary sheets are the same under every renaming of the positions,
\* so the call is followed on the cell at "A"
NextSteps ==
    \/ \E text \in Texts : SetBegin("A", text)
    \/ ClearCachesLoop
    \/ ClearCachesReturn
    \/ EraseEdgesLoop
    \/ CheckCircularErrorLoop
    \/ CheckCircularErrorReturn
    \/ SetFinish

\* a step of the call is taken whenever one can be: the call runs on one
\* thread and waits for nothing
SpecSteps == InitAny /\ [][NextSteps]_vars /\ WF_vars(NextSteps)

\* ------------------------------------------------------------ properties
\* kind and text of a content, without the memoized result
Content(impl) == <<impl.kind, impl.text>>

\* the positions reached from S along edges, S included
RECURSIVE Closure(_, _)
Closure(edges, S) ==
    LET T == S \cup UNION {edges[p] : p \in S}
    IN IF T = S THEN S ELSE Closure(edges, T)

\* the edges the committed contents report (GetReferencedCells)
ContentEdges ==
    [p \in Positions |->
        IF p \in cells THEN SeqToSet(ImplGetReferencedCells(impl_[p])) ELSE {}]

\* a text that Set takes for a formula
LooksLikeFormula(text) == Len(text) > 1 /\ text[1] = FORMULA_SIGN

\* the reference list of a formula text
TextRefs(text) == SeqToSet(FormulaReferencedCells(SubSeq(text, 2, Len(text))))

\* the value of pos computed from the contents alone, no memoized result used
FreshValue(pos) ==
    CellGetValue([State EXCEPT !.impl = [q \in Positions |->
                                            [impl_[q] EXCEPT !.cache = NoCache]]], pos)

\* C1: a Set call rejected for a circular dependency leaves the content of
\* its cell, the cell's referenced set and the referring set of every other
\* cell as they were before the call.
C1_RejectedSetChangesNothing ==
    [][(last'.op = "Set" /\ last'.thrown) =>
          /\ Content(impl_'[last'.pos]) = Content(impl_[last'.pos])
          /\ referenced_cells_'[last'.pos] = referenced_cells_[last'.pos]
          /\ \A q \in Positions \ {last'.pos} :
                referring_cells_'[q] = referring_cells_[q]]_vars

\* C2: in every reachable state neither the graph of the committed
\* contents' references nor the graph of the stored referenced sets has a
\* cycle or a self-loop.
C2_Acyclic ==
    \A p \in Positions :
        /\ p \notin Closure(ContentEdges, ContentEdges[p])
        /\ p \notin Closure(referenced_cells_, referenced_cells_[p])

\* a rejected Set has just returned and a chain of two references stands
C2_Witness ==
    /\ last.op = "Set" /\ last.thrown
    /\ \E a, b, c \in Positions :
          /\ a # b /\ b # c /\ a # c
          /\ b \in ContentEdges[a] /\ c \in ContentEdges[b]

\* C3: in every reachable state B is in A's referenced set exactly when A is
\* in B's referring set.
C3_Symmetric ==
    \A a, b \in Positions :
        b \in referenced_cells_[a] <=> a \in referring_cells_[b]

\* a Set has returned and the stored sets hold a chain of two edges
C3_Witness ==
    /\ last.op = "Set"
    /\ \E a, b, c \in Positions :
          /\ a # b /\ b # c /\ a # c
          /\ b \in referenced_cells_[a] /\ a \in referring_cells_[b]
          /\ c \in referenced_cells_[b] /\ b \in referring_cells_[c]

\* C4: GetValue returns the value a fresh evaluation of the current contents
\* gives, whatever Set calls, accepted or rejected, and reads came before.
C4_ReadsNeverStale ==
    last.op = "GetValue" => last.value = FreshValue(last.pos)

\* C5: Set(P, formula with reference list R) throws the circular dependency
\* exception exactly when P is in R or is reached from R along the reference
\* lists of the contents committed in the other cells; a position with no
\* cell is a leaf.
C5_ThrowsIffReachable ==
    [][(last'.op = "Set" /\ LooksLikeFormula(last'.text)) =>
          LET P == last'.pos
              others == [q \in Positions |-> IF q = P THEN {} ELSE ContentEdges[q]]
          IN last'.thrown <=> P \in Closure(others, TextRefs(last'.text))]_vars

\* a Set was rejected for a cycle that goes through another cell
C5_Witness ==
    /\ last.op = "Set" /\ last.thrown
    /\ last.pos \notin TextRefs(last.text)

\* C6: after a completed Set(P, t) with t empty or literal, P's referenced
\* set and GetReferencedCells are empty and P is in no referring set.
C6_LiteralHasNoEdges ==
    (last.op = "Set" /\ ~last.thrown /\ ~LooksLikeFormula(last.text)) =>
        /\ referenced_cells_[last.pos] = {}
        /\ ImplGetReferencedCells(impl_[last.pos]) = <<>>
        /\ \A q \in Positions : last.pos \notin referring_cells_[q]

\* a literal text has replaced a formula that held references
C6_Witness ==
    /\ last.op = "Set" /\ ~last.thrown /\ ~LooksLikeFormula(last.text)
    /\ last.text # <<>>
    /\ last.before # {}

\* C7: after an accepted Set(P, formula with reference list R) every p in R
\* holds a cell, is in P's referenced set and has P in its referring set; a
\* cell made by the call is Empty with no references, a cell that was there
\* keeps its content.
C7_ReferencesLinked ==
    [][(last'.op = "Set" /\ ~last'.thrown /\ LooksLikeFormula(last'.text)) =>
          \A p \in TextRefs(last'.text) :
              /\ p \in cells'
              /\ p \in referenced_cells_'[last'.pos]
              /\ last'.pos \in referring_cells_'[p]
              /\ p \notin cells =>
                    /\ impl_'[p] = EmptyImpl
                    /\ ImplGetText(impl_'[p]) = <<>>
                    /\ referenced_cells_'[p] = {}
              /\ p \in cells => Content(impl_'[p]) = Content(impl_[p])]_vars

\* an accepted formula references an Empty cell and a cell with content
C7_Witness ==
    /\ last.op = "Set" /\ ~last.thrown /\ LooksLikeFormula(last.text)
    /\ \E p, q \in TextRefs(last.text) :
          /\ impl_[p].kind = "Empty"
          /\ impl_[q].kind \in {"Text", "Formula"}

\* C8: Set makes Empty content of the empty text, Formula content of the
\* text after the marker when the text begins with the formula marker and is
\* longer than one character, and Text content holding the text as it is of
\* every other text.
C8_Classification ==
    (last.op = "Set" /\ ~last.thrown) =>
        LET t == last.text
            c == impl_[last.pos]
        IN IF t = <<>> THEN c.kind = "Empty"
           ELSE IF t[1] = FORMULA_SIGN /\ Len(t) > 1
           THEN c.kind = "Formula" /\ c.text = SubSeq(t, 2, Len(t))
           ELSE c.kind = "Text" /\ c.text = t

\* the formula marker alone was set and is Text
C8_Witness ==
    /\ last.op = "Set" /\ last.text = <<FORMULA_SIGN>>
    /\ impl_[last.pos].kind = "Text"

\* C9: after Set(t) with t literal and not starting with the formula marker,
\* GetText is t and GetValue is t without its first character when that is
\* the escape marker, t itself otherwise.
C9_LiteralTextAndValue ==
    (last.op = "Set" /\ (last.text = <<>> \/ last.text[1] # FORMULA_SIGN)) =>
        LET t == last.text
        IN /\ ImplGetText(impl_[last.pos]) = t
           /\ CellGetValue(State, last.pos) =
                 StrValue(IF t # <<>> /\ t[1] = ESCAPE_SIGN
                          THEN SubSeq(t, 2, Len(t)) ELSE t)

\* a text of two escape markers was set: its value keeps the second
C9_Witness ==
    /\ last.op = "Set" /\ last.text = <<ESCAPE_SIGN, ESCAPE_SIGN>>
    /\ CellGetValue(State, last.pos) = StrValue(<<ESCAPE_SIGN>>)

\* C10: the invalidation pass of Set on a cell leaves no memoized result in
\* any cell reached from it along referring edges, whatever the caches of
\* the cells in between hold.
C10_PassClearsEveryReferrer ==
    [][last'.op = "Set" =>
          \A q \in Closure(referring_cells_, referring_cells_[last'.pos]) :
              ~HasCache(impl_'[q])]_vars

\* C11: in a Set call the cycle check accepts before any edge is removed or
\* added and before any cache is cleared, so a call that ends in rejection
\* has removed no edge, added none and cleared no cache.
C11_NothingBeforeTheCheck ==
    [][(last'.op = "Set" /\ last'.thrown) =>
          /\ referenced_cells_' = referenced_cells_
          /\ referring_cells_' = referring_cells_
          /\ impl_' = impl_]_vars

\* C12: a Set call rejected for a circular dependency leaves the set of
\* positions that hold a cell as it was, also when the rejected formula
\* references a position with no cell.
C12_RejectedSetCreatesNoCell ==
    [][(last'.op = "Set" /\ last'.thrown) => cells' = cells]_vars

\* a formula that references a position with no cell was rejected
C12_Witness ==
    /\ last.op = "Set" /\ last.thrown
    /\ \E p \in TextRefs(last.text) : p \notin cells

\* C13: Set(P, text) leaves P's referring set, and the content and the
\* referenced set of every other cell, as they were; it changes the
\* referring set of Q only when Q is in P's old or new reference list; a
\* cell it makes is an Empty cell at a position of the new reference list.
C13_Frame ==
    [][last'.op = "Set" =>
          LET P == last'.pos
              R == IF LooksLikeFormula(last'.text) THEN TextRefs(last'.text) ELSE {}
          IN /\ referring_cells_'[P] = referring_cells_[P]
             /\ \A q \in cells \ {P} :
                   /\ q \in cells'
                   /\ Content(impl_'[q]) = Content(impl_[q])
                   /\ referenced_cells_'[q] = referenced_cells_[q]
             /\ \A q \in Positions :
                   referring_cells_'[q] # referring_cells_[q] =>
                       q \in ContentEdges[P] \cup R
             /\ \A q \in cells' \ cells :
                   /\ q \in R
                   /\ impl_'[q] = EmptyImpl
                   /\ referenced_cells_'[q] = {}
             /\ \A q \in Positions \ cells' :
                   /\ impl_'[q] = impl_[q]
                   /\ referenced_cells_'[q] = referenced_cells_[q]
             /\ fault' = fault]_vars

\* a formula with references was replaced by a literal text in a cell
\* that another cell refers to
C13_Witness ==
    /\ last.op = "Set" /\ ~last.thrown /\ ~LooksLikeFormula(last.text)
    /\ last.before # {}
    /\ referring_cells_[last.pos] # {}

\* C14: in every reachable state the stored referenced set of each cell is
\* the set of positions its committed content reports.
C14_StoredIsContent ==
    \A p \in cells : referenced_cells_[p] = ContentEdges[p]

\* C17: in every reachable state every position of a referring set holds a
\* cell whose content is Formula, and the invalidation pass has never acted
\* on an absent cell or on Empty or Text content.
C17_ReferrersAreFormulas ==
    /\ ~fault
    /\ \A p \in Positions : \A q \in referring_cells_[p] :
          q \in cells /\ impl_[q].kind = "Formula"

\* Set has made a Text cell of a cell that two formula cells refer to, its
\* invalidation pass going over both
C17_Witness ==
    /\ last.op = "Set"
    /\ Cardinality(referring_cells_[last.pos]) > 1
    /\ impl_[last.pos].kind = "Text"

\* C15: when a position of a cell's referenced set or referring set holds
\* no cell any more, Set on that cell passes over the position in the edge
\* removal and in the invalidation pass and completes; the absent cell
\* causes no fault.
C15_AbsentLinkedCellIsSkipped ==
    (/\ last.op = "Set"
     /\ \E q \in last.before \cup referring_cells_[last.pos] : q \notin cells)
        => ~fault

\* C16: every Set call terminates, completing or raising the circular
\* dependency failure; the cycle check inserts each position into
\* visited_cells at most once per call, and the invalidation pass, which
\* has no visited set, clears each cache at most once and ends on every
\* sheet, one with a cycle of referring edges included.
C16_SetTerminates ==
    /\ [](\A p \in Positions : run.inserted[p] <= 1 /\ run.cleared[p] <= 1)
    /\ [](run.phase # "idle" => <>(run.phase = "done"))

\* a Set call has ended whose invalidation pass cleared the caches of two
\* cells that refer to each other and whose cycle check went through a cell
C16_Witness ==
    /\ run.phase = "done"
    /\ \E a, b \in Positions :
          /\ a # b
          /\ a \in referring_cells_[b] /\ b \in referring_cells_[a]
          /\ run.cleared[a] = 1 /\ run.cleared[b] = 1
    /\ \E p \in Positions : run.inserted[p] = 1

\* the call followed step by step ends in the state and with the outcome
\* that CellSet gives for the sheet it began on
StepsAgreeWithCellSet ==
    run.phase = "done" =>
        LET r == CellSet(run.start, run.pos, run.text)
        IN State = r.state /\ run.thrown = r.thrown
====
